---- MODULE Spec2Model ----
(***************************************************************************)
(* Model of wayvr/src/subsystem/fitbit.rs: the Fitbit heart-rate poller.   *)
(*                                                                         *)
(* FitbitState::update is one atomic action (the host calls it on a single *)
(* thread).  Every dispatched fetch is a detached thread that runs         *)
(* fetch_latest_rate and sends one FetchResult over an mpsc channel; the   *)
(* thread is modelled by the actions Worker (normal completion) and        *)
(* WorkerPanic (the thread dies and drops its sender).                      *)
(*                                                                         *)
(* Time is in whole seconds.  An Instant is kept as its distance from the  *)
(* present: Instant::now() is Now = 0, and when d seconds pass (Tick) every*)
(* stored Instant moves d towards the past.  The code only compares stored *)
(* Instants with Instant::now(), so an Instant that is not in the future is*)
(* kept as 0.  A call of update reads one value of the clock.              *)
(*                                                                         *)
(* Option<T> is modelled as a set with at most one element.                *)
(***************************************************************************)
EXTENDS Integers, Sequences, FiniteSets, TLC

VARIABLES
    last_rate,                \* Option<u32>
    next_poll_at,             \* Instant (seconds)
    next_interval_index,      \* usize
    last_watch_visible,       \* bool
    pending,                  \* 0 = None, i = Some(receiver of worker slot i)
    access_token,             \* Option<String>
    access_token_expires_at,  \* Option<Instant>
    refresh_token,            \* Option<String>
    workers,                  \* worker slot -> thread and channel state
    run,                      \* ghost: dispatches since the cursor was last reset to 0
    cooldown_left,            \* ghost: seconds left of the 60 s after a drained 429
    ev                        \* ghost: what the last step did

vars == <<last_rate, next_poll_at, next_interval_index, last_watch_visible,
          pending, access_token, access_token_expires_at, refresh_token,
          workers, run, cooldown_left, ev>>

(***************************************************************************)
(* Bounds of the model.                                                    *)
(***************************************************************************)
MaxWorkers == 2
MaxStreak == 5

(***************************************************************************)
(* Option<T>.                                                              *)
(***************************************************************************)
None == {}
Some(x) == {x}
IsSome(o) == o # {}
IsNone(o) == o = {}
Unwrap(o) == CHOOSE x \in o : TRUE
\* Option::or
OrOpt(a, b) == IF IsSome(a) THEN a ELSE b

Min(a, b) == IF a <= b THEN a ELSE b
Max(a, b) == IF a >= b THEN a ELSE b

(***************************************************************************)
(* Time.                                                                   *)
(***************************************************************************)
\* Instant::now()
Now == 0
\* The Instant t after d more seconds have passed.
Age(t, d) == Max(t - d, Now)
\* The same for an Option<Instant>.
AgeOpt(o, d) == {Age(t, d) : t \in o}

(***************************************************************************)
(* Program constants.                                                      *)
(***************************************************************************)
\* const FITBIT_POLL_INTERVALS: [Duration; 4], in seconds; index i of the
\* code is position i + 1 here.
FITBIT_POLL_INTERVALS == <<1, 3, 10, 30>>
\* Duration::from_secs(60) of the 429 branch
RateLimitCooldown == 60
\* FITBIT_POLL_INTERVALS.len() - 1
LastIndex == Len(FITBIT_POLL_INTERVALS) - 1
\* Mutant of IntervalAt: the interval is read after the cursor has moved.
IntervalAtAdvanced(i) ==
    IF i + 2 \in DOMAIN FITBIT_POLL_INTERVALS
    THEN FITBIT_POLL_INTERVALS[i + 2]
    ELSE FITBIT_POLL_INTERVALS[Len(FITBIT_POLL_INTERVALS)]
\* FITBIT_POLL_INTERVALS.get(i).copied().unwrap_or_else(|| *last())
IntervalAt(i) ==
    IF i + 1 \in DOMAIN FITBIT_POLL_INTERVALS
    THEN FITBIT_POLL_INTERVALS[i + 1]
    ELSE FITBIT_POLL_INTERVALS[Len(FITBIT_POLL_INTERVALS)]
\* Mutant of NextIndex: the cursor is not clamped.
NextIndexUnclamped(i) == i + 1
\* (self.next_interval_index + 1).min(FITBIT_POLL_INTERVALS.len() - 1)
NextIndex(i) == Min(i + 1, LastIndex)

(***************************************************************************)
(* Inputs: configuration strings, HTTP responses.                          *)
(***************************************************************************)
Blank == " "
\* .filter(|v| !v.trim().is_empty()).map(|v| v.to_string())
NonBlank(o) == IF IsSome(o) /\ Unwrap(o) # Blank THEN o ELSE None

\* The fields of GeneralConfig that update reads (fitbit_user_id only goes
\* into the url): the access token, and the three values a refresh needs,
\* all of them set, none of them, or one of them missing or blank.
ConfigAccessTokens == {None, Some(Blank), Some("cfgA"), Some("cfgB")}
ConfigRefreshCredentials ==
    {<<None, None, None>>,
     <<Some("cfgR"), Some("id"), Some("secret")>>,
     <<None, Some("id"), Some("secret")>>,
     <<Some(Blank), Some("id"), Some("secret")>>,
     <<Some("cfgR"), Some("id"), None>>}
Configs ==
    {[fitbit_access_token |-> a,
      fitbit_refresh_token |-> c[1],
      fitbit_client_id |-> c[2],
      fitbit_client_secret |-> c[3]] :
        a \in ConfigAccessTokens, c \in ConfigRefreshCredentials}

\* seconds a refreshed token lives (expires_in of the token response)
ExpiresIn == {3}
\* What curl returns for the heart-rate GET: curl itself failed, or an HTTP
\* status with a body that parses (dataset: the intraday values) or not.
GetResponses ==
    {[curl |-> FALSE, status |-> 0, valid |-> FALSE, dataset |-> <<>>]}
    \cup {[curl |-> TRUE, status |-> s, valid |-> FALSE, dataset |-> <<>>] :
            s \in {200, 401, 429, 500}}
    \cup {[curl |-> TRUE, status |-> 200, valid |-> TRUE, dataset |-> d] :
            d \in {<<>>, <<72>>, <<72, 80>>}}
\* What curl returns for the token POST.
PostResponses ==
    {[curl |-> FALSE, status |-> 0, valid |-> FALSE,
      access_token |-> "", expires_in |-> 0, refresh_token |-> None]}
    \cup {[curl |-> TRUE, status |-> s, valid |-> FALSE,
           access_token |-> "", expires_in |-> 0, refresh_token |-> None] :
            s \in {200, 400, 429}}
    \cup {[curl |-> TRUE, status |-> 200, valid |-> TRUE,
           access_token |-> t, expires_in |-> e, refresh_token |-> r] :
            t \in {"newA", "newB"}, e \in ExpiresIn, r \in {None, Some("rotR")}}

(***************************************************************************)
(* FetchResult, TokenUpdate and the worker's pure functions.               *)
(***************************************************************************)
\* struct TokenUpdate
TokenUpdate(access, expires_in, refresh) ==
    [access_token |-> access, expires_in |-> expires_in, refresh_token |-> refresh]
\* FetchResult::Ok { rate, token }
FetchOk(rate, token) == [tag |-> "Ok", rate |-> rate, token |-> token, status |-> 0]
\* FetchResult::Err { message, status } (the message is only logged)
FetchErr(status) == [tag |-> "Err", rate |-> None, token |-> None, status |-> status]

\* One network call made by a worker, kept as a ghost trace: the GET with the
\* bearer token it presents, the POST with the refresh token it presents, how
\* the call ended for the caller (200: Ok; else the status of the error), and
\* for a GET the number of entries of the dataset it parsed (-1: no body was
\* parsed).
CallGet(token, r) ==
    [kind |-> "GET", token |-> token, status |-> r.status, samples |-> r.samples]
CallPost(token, status) ==
    [kind |-> "POST", token |-> token, status |-> status, samples |-> -1]

\* request_heart_rate on curl's answer g: Result<Option<u32>, FitbitRequestError>
\* (samples is ghost: the length of the dataset of the parsed body)
RequestHeartRate(g) ==
    IF ~g.curl THEN [ok |-> FALSE, rate |-> None, status |-> 0, samples |-> -1]
    ELSE IF g.status >= 400
         THEN [ok |-> FALSE, rate |-> None, status |-> g.status, samples |-> -1]
    ELSE IF ~g.valid THEN [ok |-> FALSE, rate |-> None, status |-> 0, samples |-> -1]
    ELSE [ok |-> TRUE,
          rate |-> IF Len(g.dataset) = 0 THEN None
                   ELSE Some(g.dataset[Len(g.dataset)]),
          status |-> g.status,
          samples |-> Len(g.dataset)]

\* Whether refresh_access_token gets as far as the POST: all three present.
RefreshPosts(a) ==
    IsSome(a.refresh_token) /\ IsSome(a.client_id) /\ IsSome(a.client_secret)

\* refresh_access_token on curl's answer p (p is not used when an argument is
\* missing).  status is what the error reports as its status: the HTTP status
\* of a refused POST, 0 for every other failure.
RefreshAccessToken(a, p) ==
    IF ~RefreshPosts(a)
    THEN [ok |-> FALSE, status |-> 0, update |-> None, calls |-> <<>>]
    ELSE IF ~p.curl
         THEN [ok |-> FALSE, status |-> 0, update |-> None,
               calls |-> <<CallPost(Unwrap(a.refresh_token), 0)>>]
    ELSE IF p.status >= 400
         THEN [ok |-> FALSE, status |-> p.status, update |-> None,
               calls |-> <<CallPost(Unwrap(a.refresh_token), p.status)>>]
    ELSE IF ~p.valid
         THEN [ok |-> FALSE, status |-> 0, update |-> None,
               calls |-> <<CallPost(Unwrap(a.refresh_token), 0)>>]
    ELSE [ok |-> TRUE, status |-> 0,
          update |-> Some(TokenUpdate(p.access_token, p.expires_in, p.refresh_token)),
          calls |-> <<CallPost(Unwrap(a.refresh_token), p.status)>>]

\* An access token the endpoint issues is a new one, never the token the
\* thread holds when it asks (held: Option<String>); two names are enough to
\* tell the new token from the held one.
NewToken(held) == IF held = Some("newA") THEN "newB" ELSE "newA"

\* The answers the token endpoint can give to this call of a thread that
\* holds the access token held (one dummy answer when no POST is made).
PostAnswers(a, held) ==
    IF RefreshPosts(a)
    THEN {p \in PostResponses : p.valid => p.access_token = NewToken(held)}
    ELSE {CHOOSE p \in PostResponses : ~p.curl}

\* Mutant of ResolveToken: a missing token becomes the empty string.
ResolveTokenOrDefault(a) ==
    OrOpt(OrOpt(a.cached_access_token, a.config_access_token), Some(""))
\* let mut token = cached_access_token.or(config_access_token);
ResolveToken(a) == OrOpt(a.cached_access_token, a.config_access_token)
\* let expired = cached_expiry.map_or(false, |expiry| Instant::now() >= expiry);
Expired(a, t) == IsSome(a.cached_expiry) /\ t >= Unwrap(a.cached_expiry)
\* let can_refresh = refresh_token.is_some() && client_id.is_some() && client_secret.is_some();
CanRefresh(a) ==
    IsSome(a.refresh_token) /\ IsSome(a.client_id) /\ IsSome(a.client_secret)
\* if expired && can_refresh {..} else if token.is_none() && can_refresh {..}
RefreshFirst(a, t) ==
    (Expired(a, t) /\ CanRefresh(a)) \/ (IsNone(ResolveToken(a)) /\ CanRefresh(a))

\* Mutant of RetryResult: a failed GET after the refresh is reported as a
\* success without a rate, so that the new token is kept.
RetryResultSavesToken(update, calls, r) ==
    [result |-> FetchOk(r.rate, Some(update)),
     calls |-> Append(calls, CallGet(update.access_token, r))]
\* The retried GET after a successful reactive refresh (lines 245-259).
RetryResult(update, calls, r) ==
    [result |-> IF r.ok THEN FetchOk(r.rate, Some(update)) ELSE FetchErr(r.status),
     calls |-> Append(calls, CallGet(update.access_token, r))]
\* Mutant of RetryGet: a 401 on the retried GET is retried once more.
RetryGetAgain(update, calls) ==
    UNION { IF RequestHeartRate(g).status = 401
            THEN {RetryResult(update,
                              Append(calls, CallGet(update.access_token,
                                                    RequestHeartRate(g))),
                              RequestHeartRate(h)) : h \in GetResponses}
            ELSE {RetryResult(update, calls, RequestHeartRate(g))}
            : g \in GetResponses }
RetryGet(update, calls) ==
    {RetryResult(update, calls, RequestHeartRate(g)) : g \in GetResponses}

\* The Err arm of the first GET (lines 242-273).
OnReactiveRefresh(calls, r) ==
    IF r.ok THEN RetryGet(Unwrap(r.update), calls \o r.calls)
    ELSE {[result |-> FetchErr(0), calls |-> calls \o r.calls]}
OnGetError(a, status, calls) ==
    IF status = 401
    THEN UNION { OnReactiveRefresh(calls, RefreshAccessToken(a, p))
                 : p \in PostAnswers(a, Some(calls[Len(calls)].token)) }
    ELSE {[result |-> FetchErr(status), calls |-> calls]}

\* match request_heart_rate(url, &token) { Ok(rate) => .., Err(err) => .. }
\* on the result r of the first GET (lines 237-274)
OnFirstGet(a, token, token_update, calls, r) ==
    IF r.ok
    THEN {[result |-> FetchOk(r.rate, token_update),
           calls |-> Append(calls, CallGet(token, r))]}
    ELSE OnGetError(a, r.status, Append(calls, CallGet(token, r)))

\* let Some(token) = token else { return Err status 0 }; then the first GET
\* (lines 230-237).
FirstGet(a, token, token_update, calls) ==
    IF IsNone(token)
    THEN {[result |-> FetchErr(0), calls |-> calls]}
    ELSE UNION { OnFirstGet(a, Unwrap(token), token_update, calls, RequestHeartRate(g))
                 : g \in GetResponses }

\* Mutant of OnProactiveRefresh: the GET presents the token resolved before
\* the refresh.
OnProactiveRefreshKeepsToken(a, r) ==
    IF r.ok
    THEN FirstGet(a, ResolveToken(a), r.update, r.calls)
    ELSE {[result |-> FetchErr(r.status), calls |-> r.calls]}
\* match refresh_access_token(..) { Ok(update) => .., Err(err) => return .. }
\* on the result r of the refresh made before the GET (lines 203-227)
OnProactiveRefresh(a, r) ==
    IF r.ok
    THEN FirstGet(a, Some(Unwrap(r.update).access_token), r.update, r.calls)
    ELSE {[result |-> FetchErr(r.status), calls |-> r.calls]}
\* fetch_latest_rate started at time t: every [result, calls] it can end
\* with, over the answers of the network.
FetchLatestRate(a, t) ==
    IF RefreshFirst(a, t)
    THEN UNION { OnProactiveRefresh(a, RefreshAccessToken(a, p))
                 : p \in PostAnswers(a, ResolveToken(a)) }
    ELSE FirstGet(a, ResolveToken(a), None, <<>>)

(***************************************************************************)
(* FitbitState and the worker slots.                                       *)
(***************************************************************************)
Slots == 1..MaxWorkers

\* The arguments std::thread::spawn moves into the closure (lines 147-155);
\* the url is the same for every configuration of the credentials.
\* config_refresh_token is ghost: the refresh token of the configuration the
\* thread was dispatched with, blank taken as absent.
NoArgs ==
    [config_access_token |-> None, cached_access_token |-> None,
     cached_expiry |-> None, refresh_token |-> None,
     client_id |-> None, client_secret |-> None,
     config_refresh_token |-> None]

\* A slot with no thread and no channel.  pc: "idle", "running" (the thread
\* has not returned from fetch_latest_rate), "done" (it sent its result and
\* dropped the sender), "panicked" (it dropped the sender without sending).
\* chan: the messages in the channel; calls: ghost, the network calls made.
IdleWorker == [pc |-> "idle", args |-> NoArgs, chan |-> <<>>, calls |-> <<>>]

\* The fields of FitbitState as one value.
Self ==
    [last_rate |-> last_rate,
     next_poll_at |-> next_poll_at,
     next_interval_index |-> next_interval_index,
     last_watch_visible |-> last_watch_visible,
     pending |-> pending,
     access_token |-> access_token,
     access_token_expires_at |-> access_token_expires_at,
     refresh_token |-> refresh_token]

\* Ghost: the last step was no call of update.  For a call of update: the
\* visibility flag, the arm the drain took, whether the watch became visible,
\* whether a thread was spawned, whether last_rate was set before the call,
\* and whether the thread whose outcome was drained had refreshed the token.
NoEvent ==
    [op |-> "other", visible |-> FALSE, recv |-> "NoPending", edge |-> FALSE,
     dispatched |-> FALSE, had_rate |-> FALSE, refreshed |-> FALSE]

\* impl Default for FitbitState, at time 0
Init ==
    /\ last_rate = None
    /\ next_poll_at = 0
    /\ next_interval_index = 0
    /\ last_watch_visible = FALSE
    /\ pending = 0
    /\ access_token = None
    /\ access_token_expires_at = None
    /\ refresh_token = None
    /\ workers = [i \in Slots |-> IdleWorker]
    /\ run = [n |-> 0, clean |-> TRUE]
    /\ cooldown_left = 0
    /\ ev = NoEvent

(***************************************************************************)
(* FitbitState::update, step by step.                                      *)
(***************************************************************************)
\* Mutant of TryRecv: a dropped sender is not noticed.
TryRecvNeverDisconnected(w) == IF Len(w.chan) > 0 THEN "Ok" ELSE "Empty"
\* Mutant of TryRecv: an empty channel counts as disconnected.
TryRecvEager(w) == IF Len(w.chan) > 0 THEN "Ok" ELSE "Disconnected"
\* receiver.try_recv() on the channel of worker w
TryRecv(w) ==
    IF Len(w.chan) > 0 THEN "Ok"
    ELSE IF w.pc \in {"done", "panicked"} THEN "Disconnected"
    ELSE "Empty"

\* Mutant of ApplyTokenUpdate: an update without a refresh token clears the
\* cached one.
ApplyTokenUpdateDropsRefresh(s, update, t) ==
    [s EXCEPT !.access_token = Some(update.access_token),
              !.access_token_expires_at = Some(t + update.expires_in),
              !.refresh_token = update.refresh_token]
\* fn apply_token_update at time t
ApplyTokenUpdate(s, update, t) ==
    [s EXCEPT !.access_token = Some(update.access_token),
              !.access_token_expires_at = Some(t + update.expires_in),
              !.refresh_token = IF IsSome(update.refresh_token)
                                THEN update.refresh_token ELSE @]

\* Mutant of DrainOk: a success without a rate keeps the last rate.
DrainOkKeepsRate(s, result, t) ==
    LET s1 == [s EXCEPT !.pending = 0,
                        !.last_rate = IF IsSome(result.rate) THEN result.rate ELSE @]
    IN  IF IsSome(result.token) THEN ApplyTokenUpdate(s1, Unwrap(result.token), t)
        ELSE s1
\* FetchResult::Ok { rate, token } arm of the drain
DrainOk(s, result, t) ==
    LET s1 == [s EXCEPT !.pending = 0, !.last_rate = result.rate] IN
    IF IsSome(result.token) THEN ApplyTokenUpdate(s1, Unwrap(result.token), t) ELSE s1

\* Mutant of DrainErr: a 429 forces the cursor and leaves next_poll_at alone.
DrainErrKeepsDeadline(s, result, t) ==
    IF result.status = 429
    THEN [s EXCEPT !.pending = 0,
                   !.next_interval_index = Len(FITBIT_POLL_INTERVALS) - 1]
    ELSE [s EXCEPT !.pending = 0]
\* Mutant of DrainErr: every failure backs off like a 429.
DrainErrAlwaysBacksOff(s, result, t) ==
    [s EXCEPT !.pending = 0,
              !.next_poll_at = t + RateLimitCooldown,
              !.next_interval_index = Len(FITBIT_POLL_INTERVALS) - 1]
\* Mutant of DrainErr: a 429 sets the cool-down and leaves the cursor alone.
DrainErrKeepsCursor(s, result, t) ==
    IF result.status = 429
    THEN [s EXCEPT !.pending = 0, !.next_poll_at = t + RateLimitCooldown]
    ELSE [s EXCEPT !.pending = 0]
\* FetchResult::Err { message, status } arm of the drain
DrainErr(s, result, t) ==
    IF result.status = 429
    THEN [s EXCEPT !.pending = 0,
                   !.next_poll_at = t + RateLimitCooldown,
                   !.next_interval_index = Len(FITBIT_POLL_INTERVALS) - 1]
    ELSE [s EXCEPT !.pending = 0]

\* if let Some(receiver) = self.pending.as_ref() { match receiver.try_recv() .. }
\* on worker w, the worker self.pending names (not read when pending is None)
Drain(s, w, t) ==
    IF s.pending = 0 THEN s
    ELSE IF TryRecv(w) = "Ok"
         THEN IF Head(w.chan).tag = "Ok" THEN DrainOk(s, Head(w.chan), t)
              ELSE DrainErr(s, Head(w.chan), t)
    ELSE IF TryRecv(w) = "Disconnected" THEN [s EXCEPT !.pending = 0]
    ELSE s

\* Ghost: which arm the drain took.
RecvKind(s, w) ==
    IF s.pending = 0 THEN "NoPending"
    ELSE IF TryRecv(w) = "Ok"
         THEN IF Head(w.chan).tag = "Ok" THEN "Ok"
              ELSE IF Head(w.chan).status = 429 THEN "Err429" ELSE "Err"
    ELSE TryRecv(w)

\* Mutant of VisibilityReset: becoming visible also forgets the last rate.
VisibilityResetClearsRate(s, t) ==
    IF ~s.last_watch_visible
    THEN [s EXCEPT !.next_poll_at = t, !.next_interval_index = 0,
                   !.last_watch_visible = TRUE, !.last_rate = None]
    ELSE s
\* Mutant of VisibilityReset: the cursor is reset, next_poll_at is not.
VisibilityResetKeepsDeadline(s, t) ==
    IF ~s.last_watch_visible
    THEN [s EXCEPT !.next_interval_index = 0, !.last_watch_visible = TRUE]
    ELSE s
\* if watch_visible && !self.last_watch_visible { .. } at time t
VisibilityReset(s, t) ==
    IF ~s.last_watch_visible
    THEN [s EXCEPT !.next_poll_at = t, !.next_interval_index = 0,
                   !.last_watch_visible = TRUE]
    ELSE s

\* Mutant of SeedAccessToken: a configured token replaces the cached one.
SeedAccessTokenOverwrites(s, config_access_token) ==
    IF IsNone(s.access_token) \/ IsSome(config_access_token)
    THEN [s EXCEPT !.access_token = config_access_token]
    ELSE s
\* if self.access_token.is_none() { self.access_token.clone_from(&config_access_token) }
SeedAccessToken(s, config_access_token) ==
    IF IsNone(s.access_token) THEN [s EXCEPT !.access_token = config_access_token]
    ELSE s

\* if now < self.next_poll_at { return; }
BackingOff(s, t) == t < s.next_poll_at

\* Mutant of AlreadyPending: the check is missing.
AlreadyPendingIgnored(s) == FALSE
\* if self.pending.is_some() { return; }
AlreadyPending(s) == s.pending # 0

\* lines 136-142 and 158: the schedule moves on and the receiver is kept
Schedule(s, t, slot) ==
    [s EXCEPT !.next_poll_at = t + IntervalAt(s.next_interval_index),
              !.next_interval_index = NextIndex(s.next_interval_index),
              !.pending = slot]

\* Mutant of SpawnArgs: the cached refresh token is taken before the
\* configured one.
SpawnArgsCachedRefreshFirst(s, config) ==
    [config_access_token |-> NonBlank(config.fitbit_access_token),
     cached_access_token |-> s.access_token,
     cached_expiry |-> s.access_token_expires_at,
     refresh_token |-> OrOpt(s.refresh_token, NonBlank(config.fitbit_refresh_token)),
     client_id |-> NonBlank(config.fitbit_client_id),
     client_secret |-> NonBlank(config.fitbit_client_secret),
     config_refresh_token |-> NonBlank(config.fitbit_refresh_token)]
\* lines 105-122 and 132-133: what the closure captures
SpawnArgs(s, config) ==
    [config_access_token |-> NonBlank(config.fitbit_access_token),
     cached_access_token |-> s.access_token,
     cached_expiry |-> s.access_token_expires_at,
     refresh_token |-> OrOpt(NonBlank(config.fitbit_refresh_token), s.refresh_token),
     client_id |-> NonBlank(config.fitbit_client_id),
     client_secret |-> NonBlank(config.fitbit_client_secret),
     config_refresh_token |-> NonBlank(config.fitbit_refresh_token)]

\* The lowest slot with no thread in it.
FreeSlots(ws) == {i \in Slots : ws[i].pc = "idle"}
FreeSlot(ws) == CHOOSE i \in FreeSlots(ws) : \A j \in FreeSlots(ws) : i <= j

\* lines 78-92: the visibility edge and the seeding of the cache, on the
\* state s the drain left, at time t
Seeded(s, config, t) ==
    SeedAccessToken(VisibilityReset(s, t), NonBlank(config.fitbit_access_token))

\* Whether update, past line 92 in state s at time t, spawns a thread.
Dispatches(s, t) == ~BackingOff(s, t) /\ ~AlreadyPending(s)

\* Ghost: n counts the dispatches since the cursor was last reset to 0 (it
\* stops counting at MaxStreak); clean is FALSE once a 429 was drained since
\* then, and n is no longer counted.
RunAfter(r, recv, edge, dispatched) ==
    LET r1 == IF recv = "Err429" THEN [n |-> 0, clean |-> FALSE] ELSE r
        r2 == IF edge THEN [n |-> 0, clean |-> TRUE] ELSE r1
    IN  IF dispatched /\ r2.clean THEN [r2 EXCEPT !.n = Min(@ + 1, MaxStreak)] ELSE r2

\* Ghost: the seconds left of the 60 s that follow the drain of a 429, as
\* long as nothing was dispatched since that drain (0 once a thread was
\* spawned, and when no 429 was drained).
CooldownAfter(c, recv, dispatched) ==
    IF dispatched THEN 0
    ELSE IF recv = "Err429" THEN RateLimitCooldown
    ELSE c

\* The worker self.pending names.
PendingWorker == IF pending # 0 THEN workers[pending] ELSE IdleWorker

\* Ghost: the thread of worker w got a new token from the token endpoint.
Refreshed(w) ==
    \E k \in DOMAIN w.calls : w.calls[k].kind = "POST" /\ w.calls[k].status = 200

\* Ghost: the event of a call of update.
UpdateEvent(s1, recv, visible, dispatched) ==
    [op |-> "update", visible |-> visible, recv |-> recv,
     edge |-> visible /\ ~s1.last_watch_visible, dispatched |-> dispatched,
     had_rate |-> IsSome(last_rate),
     refreshed |-> recv \in {"Ok", "Err", "Err429"} /\ Refreshed(PendingWorker)]

\* The slots once the drain left s: the receiver is dropped when pending is
\* cleared, and its thread has ended.
Released(s) ==
    IF pending # 0 /\ s.pending = 0
    THEN [workers EXCEPT ![pending] = IdleWorker] ELSE workers

\* std::thread::spawn: a new thread in slot, with what the closure captures
Spawned(ws, slot, args) ==
    [ws EXCEPT ![slot] = [pc |-> "running", args |-> args, chan |-> <<>>,
                          calls |-> <<>>]]

\* update returns: s is the new FitbitState, ws the slots, e the ghost event.
Commit(s, ws, e) ==
    /\ last_rate' = s.last_rate
    /\ next_poll_at' = s.next_poll_at
    /\ next_interval_index' = s.next_interval_index
    /\ last_watch_visible' = s.last_watch_visible
    /\ pending' = s.pending
    /\ access_token' = s.access_token
    /\ access_token_expires_at' = s.access_token_expires_at
    /\ refresh_token' = s.refresh_token
    /\ workers' = ws
    /\ run' = RunAfter(run, e.recv, e.edge, e.dispatched)
    /\ cooldown_left' = CooldownAfter(cooldown_left, e.recv, e.dispatched)
    /\ ev' = e

\* lines 94-158 for a visible watch: s1 is the state the drain left, s3 the
\* state after lines 78-92, ws the slots after the drain.
PollVisible(s1, s3, ws, recv, config) ==
    IF Dispatches(s3, Now)
    THEN /\ FreeSlots(ws) # {}
         /\ Commit(Schedule(s3, Now, FreeSlot(ws)),
                   Spawned(ws, FreeSlot(ws), SpawnArgs(s3, config)),
                   UpdateEvent(s1, recv, TRUE, TRUE))
    ELSE Commit(s3, ws, UpdateEvent(s1, recv, TRUE, FALSE))

\* Mutant of UpdateDrained: going invisible also resets the cursor.
UpdateDrainedResetsCursor(s1, recv, config, watch_visible) ==
    IF ~watch_visible
    THEN Commit([s1 EXCEPT !.last_watch_visible = FALSE, !.next_interval_index = 0],
                Released(s1), UpdateEvent(s1, recv, FALSE, FALSE))
    ELSE PollVisible(s1, Seeded(s1, config, Now), Released(s1), recv, config)
\* lines 73-158: update after the drain left state s1 and took arm recv
UpdateDrained(s1, recv, config, watch_visible) ==
    IF ~watch_visible
    THEN Commit([s1 EXCEPT !.last_watch_visible = FALSE], Released(s1),
                UpdateEvent(s1, recv, FALSE, FALSE))
    ELSE PollVisible(s1, Seeded(s1, config, Now), Released(s1), recv, config)

\* pub fn update(&mut self, config: &GeneralConfig, watch_visible: bool)
Update(config, watch_visible) ==
    UpdateDrained(Drain(Self, PendingWorker, Now), RecvKind(Self, PendingWorker),
                  config, watch_visible)

(***************************************************************************)
(* The worker thread of slot i (the closure of lines 146-157).             *)
(***************************************************************************)
\* let result = fetch_latest_rate(..); let _ = sender.send(result);
\* send fails, and is ignored, when the receiver was dropped.
Worker(i) ==
    /\ workers[i].pc = "running"
    /\ \E o \in FetchLatestRate(workers[i].args, Now) :
          workers' = [workers EXCEPT ![i] =
                        IF pending = i
                        THEN [@ EXCEPT !.pc = "done",
                                       !.chan = Append(@, o.result),
                                       !.calls = o.calls]
                        ELSE IdleWorker]
    /\ ev' = NoEvent
    /\ UNCHANGED <<last_rate, next_poll_at, next_interval_index, last_watch_visible,
                   pending, access_token, access_token_expires_at, refresh_token,
                   run, cooldown_left>>

\* The thread ends without reaching send: the sender is dropped, the channel
\* disconnects with nothing in it.
WorkerPanic(i) ==
    /\ workers[i].pc = "running"
    /\ workers' = [workers EXCEPT ![i] =
                     IF pending = i THEN [@ EXCEPT !.pc = "panicked"] ELSE IdleWorker]
    /\ ev' = NoEvent
    /\ UNCHANGED <<last_rate, next_poll_at, next_interval_index, last_watch_visible,
                   pending, access_token, access_token_expires_at, refresh_token,
                   run, cooldown_left>>

\* d seconds pass: every stored Instant, also the expiry a running thread
\* holds, is d seconds nearer (or in the past).
Tick(d) ==
    /\ next_poll_at' = Age(next_poll_at, d)
    /\ access_token_expires_at' = AgeOpt(access_token_expires_at, d)
    /\ cooldown_left' = Age(cooldown_left, d)
    /\ workers' = [i \in Slots |->
                     [workers[i] EXCEPT !.args.cached_expiry = AgeOpt(@, d)]]
    /\ ev' = NoEvent
    /\ UNCHANGED <<last_rate, next_interval_index, last_watch_visible,
                   pending, access_token, refresh_token, run>>

\* The configuration with nothing set.
NoConfig ==
    [fitbit_access_token |-> None, fitbit_refresh_token |-> None,
     fitbit_client_id |-> None, fitbit_client_secret |-> None]

\* One step of the system: the host calls update with a configuration of
\* configs and a visible watch, or with an invisible watch (update returns
\* before it reads the configuration), a thread ends, or a duration of ticks
\* passes.
Step(configs, ticks) ==
    \/ \E config \in configs : Update(config, TRUE)
    \/ Update(NoConfig, FALSE)
    \/ \E i \in Slots : Worker(i)
    \/ \E i \in Slots : WorkerPanic(i)
    \/ \E d \in ticks : Tick(d)

\* The scheduler in detail: time passes second by second, and the host
\* configures an access token with nothing to refresh it with, or with all a
\* refresh needs.
SchedConfigs ==
    {c \in Configs :
        /\ c.fitbit_access_token = Some("cfgA")
        /\ \/ /\ c.fitbit_refresh_token = None
              /\ c.fitbit_client_id = None
           \/ /\ c.fitbit_refresh_token = Some("cfgR")
              /\ c.fitbit_client_secret = Some("secret")}
SchedTicks == {1}

Next == Step(SchedConfigs, SchedTicks)

Spec == Init /\ [][Next]_vars

\* The tokens in detail: every configuration, and time passes a minute at a
\* time (every stored Instant is reached).
TokTicks == {60}

NextTok == Step(Configs, TokTicks)

SpecTok == Init /\ [][NextTok]_vars

\* Progress: the host keeps calling update, every thread ends (it returns
\* from fetch_latest_rate and sends, or dies), and time passes.  The host
\* configures an access token and nothing to refresh it with; time passes
\* half a minute at a time.
LiveConfigs ==
    {c \in Configs :
        /\ c.fitbit_access_token = Some("cfgA")
        /\ c.fitbit_refresh_token = None
        /\ c.fitbit_client_id = None}
LiveTicks == {30}

\* A call of update, with a visible or an invisible watch.
HostCalls == (\E config \in LiveConfigs : Update(config, TRUE)) \/ Update(NoConfig, FALSE)
\* A thread ends.
ThreadEnds == \E i \in Slots : Worker(i) \/ WorkerPanic(i)
\* Time passes.
TimePasses == \E d \in LiveTicks : Tick(d)

NextLive == Step(LiveConfigs, LiveTicks)

SpecLive ==
    /\ Init /\ [][NextLive]_vars
    /\ WF_vars(HostCalls) /\ WF_vars(ThreadEnds) /\ WF_vars(TimePasses)

(***************************************************************************)
(* Properties.                                                             *)
(***************************************************************************)
\* The workers in flight: dispatched, and the outcome not yet drained.
InFlight == {i \in Slots : workers[i].pc # "idle"}

\* C1 (single-flight): in every reachable state at most one fetch worker is
\* in flight, it is the one self.pending names, and a call of update that
\* found the pending channel empty (the worker still running) dispatched
\* nothing.
C1_SingleFlight ==
    /\ Cardinality(InFlight) <= 1
    /\ pending = 0 => InFlight = {}
    /\ pending # 0 => InFlight = {pending}
    /\ (ev.op = "update" /\ ev.recv = "Empty") => ~ev.dispatched

\* C1 witness: update was called with a visible watch when the next poll was
\* due, found its worker still running, and dispatched nothing.
C1_Witness ==
    /\ ev.op = "update" /\ ev.visible /\ ev.recv = "Empty" /\ ~ev.dispatched
    /\ next_poll_at = Now
    /\ pending # 0 /\ workers[pending].pc = "running"

\* C2 (backoff sequence): the n-th consecutive dispatch (n = 0, 1, ..) since
\* the cursor was 0, with no 429 drained since, sets next_poll_at to now plus
\* 1 s, 3 s, 10 s, and 30 s from the fourth dispatch on.
C2_BackoffSequence ==
    (ev.op = "update" /\ ev.dispatched /\ run.clean) =>
        /\ run.n >= 1
        /\ next_poll_at = Now + (IF run.n = 1 THEN 1
                                 ELSE IF run.n = 2 THEN 3
                                 ELSE IF run.n = 3 THEN 10
                                 ELSE 30)

\* C2 witness: the fifth consecutive dispatch has just added 30 s.
C2_Witness ==
    /\ ev.op = "update" /\ ev.dispatched /\ run.clean /\ run.n = 5
    /\ next_poll_at = Now + 30

\* C3 (visibility reset): a call of update with a visible watch while
\* last_watch_visible was false resets the cursor to 0 and next_poll_at to
\* now before the eligibility check, whatever the backoff was: if no fetch is
\* pending after the drain the call dispatches (and the schedule is one step
\* past the reset: cursor 1, next poll in 1 s), else it leaves cursor 0 and
\* next_poll_at = now.
C3_VisibleResets ==
    (ev.op = "update" /\ ev.edge) =>
        /\ last_watch_visible
        /\ IF ev.recv = "Empty"
           THEN ~ev.dispatched /\ next_interval_index = 0 /\ next_poll_at = Now
           ELSE /\ ev.dispatched
                /\ next_interval_index = 1
                /\ next_poll_at = Now + 1
                /\ pending # 0 /\ workers[pending].pc = "running"

\* C3 witness: the call that became visible drained a 429 (which set the
\* 60 s cool-down in the same call) and still dispatched.
C3_Witness ==
    /\ ev.op = "update" /\ ev.edge /\ ev.recv = "Err429" /\ ev.dispatched
    /\ next_poll_at = Now + 1

\* Whether the step starts a thread in a slot.
StartsThread ==
    \E i \in Slots : workers'[i].pc = "running" /\ workers[i].pc # "running"

\* C4 as claimed: a call of update with an invisible watch dispatches nothing
\* and leaves next_interval_index and next_poll_at as they were, also when an
\* outcome is waiting to be drained.
C4_InvisibleKeepsSchedule ==
    [][(ev'.op = "update" /\ ~ev'.visible) =>
          /\ ~ev'.dispatched /\ ~StartsThread
          /\ next_interval_index' = next_interval_index
          /\ next_poll_at' = next_poll_at]_vars

\* C4 as amended: a call of update with an invisible watch dispatches
\* nothing, and leaves next_interval_index and next_poll_at as they were
\* unless it drains a 429 outcome, which sets them to the last index and
\* now + 60 s.
C4_InvisibleKeepsScheduleBut429 ==
    [][(ev'.op = "update" /\ ~ev'.visible) =>
          /\ ~ev'.dispatched /\ ~StartsThread
          /\ ~last_watch_visible'
          /\ IF ev'.recv = "Err429"
             THEN next_interval_index' = 3 /\ next_poll_at' = Now + 60
             ELSE /\ next_interval_index' = next_interval_index
                  /\ next_poll_at' = next_poll_at]_vars

\* C4 witness: an invisible call has drained a 429.
C4_Witness ==
    /\ ev.op = "update" /\ ~ev.visible /\ ev.recv = "Err429"
    /\ next_interval_index = 3 /\ next_poll_at = Now + 60 /\ pending = 0

\* The outcome at the head of the pending channel is a failure with status 429.
Pending429 ==
    /\ pending # 0
    /\ Len(workers[pending].chan) > 0
    /\ Head(workers[pending].chan).tag = "Err"
    /\ Head(workers[pending].chan).status = 429

\* C5 (429 override): when update drains a failure with status 429, the drain
\* sets next_poll_at to now + 60 s and the cursor to 3 whatever they were,
\* and leaves last_rate alone; that is the state the call returns with,
\* unless the same call sees the watch become visible (C3).
C5_RateLimitOverride ==
    [][(Pending429 /\ ev'.op = "update") =>
          /\ ev'.recv = "Err429"
          /\ Drain(Self, PendingWorker, Now).next_poll_at = Now + 60
          /\ Drain(Self, PendingWorker, Now).next_interval_index = 3
          /\ Drain(Self, PendingWorker, Now).last_rate = last_rate
          /\ last_rate' = last_rate
          /\ ~ev'.edge => /\ next_poll_at' = Now + 60
                          /\ next_interval_index' = 3
                          /\ ~ev'.dispatched /\ pending' = 0]_vars

\* C5 witness: a visible call has drained a 429 and returned in the cool-down,
\* with the rate of an earlier success kept.
C5_Witness ==
    /\ ev.op = "update" /\ ev.visible /\ ~ev.edge /\ ev.recv = "Err429"
    /\ next_poll_at = Now + 60 /\ next_interval_index = 3
    /\ IsSome(last_rate)

\* C8 (cursor range): next_interval_index is always between 0 and 3.
C8_IndexInRange == next_interval_index \in 0..3

\* C8 witness: a dispatch at the last index, after a 429 forced the cursor
\* there, left it at 3.
C8_Witness ==
    /\ ev.op = "update" /\ ev.dispatched /\ ~run.clean
    /\ next_interval_index = 3

\* The workers that have sent their outcome, not drained yet.
Done == {i \in Slots : workers[i].pc = "done"}
\* The outcome worker i sent.
Outcome(i) == Head(workers[i].chan)
\* The positions of the GETs among the network calls of worker i.
Gets(i) == {k \in DOMAIN workers[i].calls : workers[i].calls[k].kind = "GET"}
\* The position of the first GET of worker i (0: it made none).
FirstGetAt(i) ==
    IF Gets(i) = {} THEN 0 ELSE CHOOSE k \in Gets(i) : \A j \in Gets(i) : k <= j
\* The first GET of worker i was answered 401.
FirstGet401(i) ==
    FirstGetAt(i) # 0 /\ workers[i].calls[FirstGetAt(i)].status = 401
\* A refresh is possible with what worker i was given.
RefreshPossible(i) ==
    /\ IsSome(workers[i].args.refresh_token)
    /\ IsSome(workers[i].args.client_id)
    /\ IsSome(workers[i].args.client_secret)

\* C6 as claimed: in a finished cycle, a 401 on the first GET is followed by
\* exactly one refresh and then exactly one retry of the GET, a 401 on the
\* retry ends the cycle with a failure of status 401, and no cycle makes more
\* than two GETs.
C6_RefreshAndRetryOnce ==
    \A i \in Done :
        /\ Cardinality(Gets(i)) <= 2
        /\ FirstGet401(i) =>
             /\ Len(workers[i].calls) = FirstGetAt(i) + 2
             /\ workers[i].calls[FirstGetAt(i) + 1].kind = "POST"
             /\ workers[i].calls[FirstGetAt(i) + 2].kind = "GET"
             /\ workers[i].calls[FirstGetAt(i) + 2].status = 401
                  => Outcome(i) = FetchErr(401)

\* C6 as amended: a 401 on the first GET is followed by at most one refresh
\* request: exactly one when the refresh token, client id and client secret
\* are all there, none otherwise; the GET is retried exactly once when that
\* refresh succeeds, and not at all when it fails or is not made, in which
\* case the cycle ends with a failure.  A 401 on the retry ends the cycle
\* with a failure of status 401.  No cycle makes more than two GETs.
C6_RefreshAndRetryOnceIfRefreshed ==
    \A i \in Done :
        /\ Cardinality(Gets(i)) <= 2
        /\ FirstGet401(i) =>
             IF ~RefreshPossible(i)
             THEN /\ Len(workers[i].calls) = FirstGetAt(i)
                  /\ Outcome(i).tag = "Err"
             ELSE /\ Len(workers[i].calls) >= FirstGetAt(i) + 1
                  /\ workers[i].calls[FirstGetAt(i) + 1].kind = "POST"
                  /\ IF workers[i].calls[FirstGetAt(i) + 1].status = 200
                     THEN /\ Len(workers[i].calls) = FirstGetAt(i) + 2
                          /\ workers[i].calls[FirstGetAt(i) + 2].kind = "GET"
                          /\ workers[i].calls[FirstGetAt(i) + 2].status = 401
                               => Outcome(i) = FetchErr(401)
                          /\ workers[i].calls[FirstGetAt(i) + 2].status = 200
                               => Outcome(i).tag = "Ok"
                     ELSE /\ Len(workers[i].calls) = FirstGetAt(i) + 1
                          /\ Outcome(i).tag = "Err"

\* C6 witness: a cycle made GET (401), POST (refreshed), GET (401) and ended
\* with a failure of status 401.
C6_Witness ==
    \E i \in Done :
        /\ Len(workers[i].calls) = 3
        /\ workers[i].calls[1].kind = "GET" /\ workers[i].calls[1].status = 401
        /\ workers[i].calls[2].kind = "POST" /\ workers[i].calls[2].status = 200
        /\ workers[i].calls[3].kind = "GET" /\ workers[i].calls[3].status = 401
        /\ Outcome(i) = FetchErr(401)

\* The thread was given no access token and cannot refresh.
NoCredentials(a) ==
    /\ IsNone(a.cached_access_token)
    /\ IsNone(a.config_access_token)
    /\ ~(IsSome(a.refresh_token) /\ IsSome(a.client_id) /\ IsSome(a.client_secret))

\* C7 (missing token): a cycle dispatched with no access token (cached or
\* configured) and without all a refresh needs ends with no network call made
\* and the outcome Err with status 0; the update that drains it leaves
\* last_rate as it was.
C7_NoTokenNoNetwork ==
    [][/\ \A i \in Slots :
            (/\ workers[i].pc = "running"
             /\ NoCredentials(workers[i].args)
             /\ workers'[i].pc = "done")
            => /\ workers'[i].calls = <<>>
               /\ workers'[i].chan = <<FetchErr(0)>>
       /\ (/\ pending # 0
           /\ workers[pending].pc = "done"
           /\ NoCredentials(workers[pending].args)
           /\ ev'.op = "update")
          => /\ ev'.recv = "Err"
             /\ last_rate' = last_rate]_vars

\* C7 witness: such a cycle has ended: nothing was called, Err status 0 sent.
C7_Witness ==
    \E i \in Done :
        /\ NoCredentials(workers[i].args)
        /\ workers[i].calls = <<>>
        /\ Outcome(i) = FetchErr(0)
        /\ pending = i

\* C9 (the cached access token wins): a cached token changes only when update
\* drains a success that carries a TokenUpdate, and then to that token; an
\* empty cache is filled only by update, from such an outcome or, for a
\* visible watch, from the configuration; a dispatched thread is given the
\* cache as it is after that; and a thread given a cached token never
\* presents the configured one in its place: the GET it starts with presents
\* the cached token.
C9_CachedTokenWins ==
    [][/\ (IsSome(access_token) /\ access_token' # access_token)
          => /\ ev'.op = "update" /\ ev'.recv = "Ok"
             /\ pending # 0 /\ Len(workers[pending].chan) > 0
             /\ IsSome(Head(workers[pending].chan).token)
             /\ access_token' =
                  Some(Unwrap(Head(workers[pending].chan).token).access_token)
       /\ (IsNone(access_token) /\ IsSome(access_token'))
          => /\ ev'.op = "update"
             /\ \/ /\ pending # 0 /\ Len(workers[pending].chan) > 0
                   /\ IsSome(Head(workers[pending].chan).token)
                \/ /\ ev'.visible
                   /\ access_token' \in {Some("cfgA"), Some("cfgB")}
       /\ ev'.dispatched
          => workers'[pending'].args.cached_access_token = access_token'
       /\ \A i \in Slots :
            (/\ workers[i].pc = "running" /\ workers'[i].pc = "done"
             /\ IsSome(workers[i].args.cached_access_token))
            => \A k \in DOMAIN workers'[i].calls :
                 workers'[i].calls[k].kind = "GET"
                 => /\ k = 1 => workers'[i].calls[k].token
                                  = Unwrap(workers[i].args.cached_access_token)
                    /\ \/ workers[i].args.config_access_token
                            = workers[i].args.cached_access_token
                       \/ Some(workers'[i].calls[k].token)
                            # workers[i].args.config_access_token]_vars

\* C9 witness: the cache holds cfgA, the configuration said cfgB, and the
\* thread presented cfgA.
C9_Witness ==
    \E i \in Done :
        /\ workers[i].args.cached_access_token = Some("cfgA")
        /\ workers[i].args.config_access_token = Some("cfgB")
        /\ Len(workers[i].calls) > 0
        /\ workers[i].calls[1].kind = "GET" /\ workers[i].calls[1].token = "cfgA"
        /\ access_token = Some("cfgA")

\* C10 (one outcome, drained once): a channel never holds more than one
\* FetchResult; pending is cleared only by update and only when the thread
\* has ended (it sent its outcome or dropped the channel), never while it
\* runs; and the first update after the thread ended clears pending, after
\* which nothing of that thread or channel is left to drain again.
C10_DrainedOnce ==
    [][/\ \A i \in Slots : Len(workers'[i].chan) <= 1
       /\ (pending # 0 /\ (pending' = 0 \/ ev'.dispatched))
          => /\ ev'.op = "update"
             /\ workers[pending].pc \in {"done", "panicked"}
             /\ ev'.recv \in {"Ok", "Err", "Err429", "Disconnected"}
       /\ (ev'.op = "update" /\ pending # 0 /\ workers[pending].pc \in {"done", "panicked"})
          => /\ pending' = 0 \/ ev'.dispatched
             /\ ev'.recv = "Disconnected" <=> workers[pending].pc = "panicked"
             /\ \A i \in Slots :
                  IF i = pending' THEN workers'[i].pc = "running" /\ workers'[i].chan = <<>>
                  ELSE workers'[i] = IdleWorker]_vars

\* C10 witness: update found the channel disconnected and cleared pending.
C10_Witness ==
    /\ ev.op = "update" /\ ev.recv = "Disconnected" /\ ~ev.dispatched
    /\ pending = 0 /\ InFlight = {}

\* C11 as claimed: last_rate, the token cache and the cursor change only in
\* the drain at the start of update: a step that is no call of update leaves
\* them alone (the cached expiry is the same Instant, time passing only brings
\* it nearer), and update returns with the values the drain left.
C11_OnlyDrainMutates ==
    [][/\ ev'.op = "other"
          => /\ last_rate' = last_rate
             /\ access_token' = access_token
             /\ refresh_token' = refresh_token
             /\ next_interval_index' = next_interval_index
             /\ \/ access_token_expires_at' = access_token_expires_at
                \/ \E d \in SchedTicks :
                     access_token_expires_at' = AgeOpt(access_token_expires_at, d)
       /\ ev'.op = "update"
          => /\ last_rate' = Drain(Self, PendingWorker, Now).last_rate
             /\ access_token' = Drain(Self, PendingWorker, Now).access_token
             /\ access_token_expires_at'
                  = Drain(Self, PendingWorker, Now).access_token_expires_at
             /\ refresh_token' = Drain(Self, PendingWorker, Now).refresh_token
             /\ next_interval_index'
                  = Drain(Self, PendingWorker, Now).next_interval_index]_vars

\* C11 as amended: the worker threads and the passing of time never write
\* last_rate, the token cache or the cursor; update alone does.  last_rate,
\* the cached expiry and the cached refresh token are written only by the
\* drain.  After the drain update writes the cached access token only when
\* the cache is empty and the watch visible (the configured token seeds it),
\* and the cursor only for a visible watch: 0 when the watch became visible,
\* then one step on (at most 3) when it dispatches.
C11_DrainThenScheduleMutate ==
    [][/\ ev'.op = "other"
          => /\ last_rate' = last_rate
             /\ access_token' = access_token
             /\ refresh_token' = refresh_token
             /\ next_interval_index' = next_interval_index
             /\ \/ access_token_expires_at' = access_token_expires_at
                \/ \E d \in SchedTicks :
                     access_token_expires_at' = AgeOpt(access_token_expires_at, d)
       /\ ev'.op = "update"
          => /\ last_rate' = Drain(Self, PendingWorker, Now).last_rate
             /\ access_token_expires_at'
                  = Drain(Self, PendingWorker, Now).access_token_expires_at
             /\ refresh_token' = Drain(Self, PendingWorker, Now).refresh_token
             /\ \/ access_token' = Drain(Self, PendingWorker, Now).access_token
                \/ /\ ev'.visible
                   /\ IsNone(Drain(Self, PendingWorker, Now).access_token)
                   /\ access_token' = Some("cfgA")
             /\ next_interval_index' =
                  IF ev'.dispatched
                  THEN Min(3, 1 + (IF ev'.edge THEN 0
                                   ELSE Drain(Self, PendingWorker, Now).next_interval_index))
                  ELSE IF ev'.edge THEN 0
                  ELSE Drain(Self, PendingWorker, Now).next_interval_index
             /\ ~ev'.visible => ~ev'.edge /\ ~ev'.dispatched]_vars

\* C11 witness: one call of update drained a success (the drain wrote
\* last_rate and the token cache), saw the watch become visible and
\* dispatched (the steps after the drain wrote the cursor).
C11_Witness ==
    /\ ev.op = "update" /\ ev.recv = "Ok" /\ ev.edge /\ ev.dispatched
    /\ IsSome(last_rate) /\ IsSome(access_token_expires_at)
    /\ next_interval_index = 1


\* The last network call of worker w was a GET that parsed an empty dataset.
FinalGetEmpty(w) ==
    /\ Len(w.calls) > 0
    /\ w.calls[Len(w.calls)].kind = "GET"
    /\ w.calls[Len(w.calls)].samples = 0

\* C12 (empty dataset): a cycle whose final GET succeeds with an empty
\* dataset ends with the outcome Ok with rate None; the update that drains it
\* sets last_rate to None, whatever it was, and the drain leaves next_poll_at
\* and the cursor alone (for an invisible watch they are unchanged when the
\* call returns).
C12_EmptyDatasetIsNone ==
    [][/\ \A i \in Slots :
            (/\ workers[i].pc = "running" /\ workers'[i].pc = "done"
             /\ FinalGetEmpty(workers'[i]))
            => /\ Len(workers'[i].chan) = 1
               /\ workers'[i].chan[1].tag = "Ok"
               /\ workers'[i].chan[1].rate = None
               /\ workers'[i].calls[Len(workers'[i].calls)].status = 200
       /\ (/\ pending # 0
           /\ workers[pending].pc = "done"
           /\ FinalGetEmpty(workers[pending])
           /\ ev'.op = "update")
          => /\ ev'.recv = "Ok"
             /\ last_rate' = None
             /\ pending' = 0 \/ ev'.dispatched
             /\ Drain(Self, PendingWorker, Now).next_poll_at = next_poll_at
             /\ Drain(Self, PendingWorker, Now).next_interval_index
                  = next_interval_index
             /\ ~ev'.visible => /\ next_poll_at' = next_poll_at
                                /\ next_interval_index' = next_interval_index]_vars

\* C12 witness: update drained a success and returned with last_rate None
\* where a rate was known before, still backing off.
C12_Witness ==
    /\ ev.op = "update" /\ ev.recv = "Ok" /\ ev.had_rate /\ last_rate = None
    /\ ~ev.dispatched /\ pending = 0 /\ next_poll_at > Now


\* The seconds left of the cool-down once the drain of this call is done: the
\* whole 60 s when the call drains a 429.
CooldownAfterDrain ==
    IF RecvKind(Self, PendingWorker) = "Err429" THEN RateLimitCooldown
    ELSE cooldown_left

\* C13 as claimed: once update has drained a 429 at time t, no call of update
\* dispatches before t + 60 s, whatever the visibility flags.
C13_NoDispatchInCooldown ==
    [][(ev'.op = "update" /\ ev'.dispatched) => CooldownAfterDrain = 0]_vars

\* C13 as amended: once update has drained a 429 at time t, the first
\* dispatch after it is not before t + 60 s unless the watch goes from
\* invisible to visible: a call before t + 60 s dispatches exactly when it
\* sees the watch become visible (in the call that drained the 429 or a
\* later one), and then the schedule restarts at cursor 0.
C13_NoDispatchInCooldownUnlessVisibleAgain ==
    [][(ev'.op = "update" /\ CooldownAfterDrain > 0) =>
          /\ ev'.dispatched <=> ev'.edge
          /\ ev'.dispatched => next_interval_index' = 1 /\ next_poll_at' = Now + 1
          /\ ~ev'.dispatched => /\ next_poll_at' = CooldownAfterDrain
                                /\ next_interval_index' = 3
                                /\ pending' = 0]_vars

\* C13 witness: in the middle of the cool-down a call with a watch that had
\* stayed visible found nothing pending and dispatched nothing.
C13_Witness ==
    /\ ev.op = "update" /\ ev.visible /\ ~ev.edge /\ ev.recv = "NoPending"
    /\ ~ev.dispatched
    /\ cooldown_left = 30 /\ next_poll_at = Now + 30


\* The position of the last GET of worker i (0: it made none).
LastGetAt(i) ==
    IF Gets(i) = {} THEN 0 ELSE CHOOSE k \in Gets(i) : \A j \in Gets(i) : k >= j
\* The last GET of worker i failed and no refresh succeeded after it.
GetFailedForGood(i) ==
    /\ LastGetAt(i) # 0
    /\ workers[i].calls[LastGetAt(i)].status # 200
    /\ \A k \in DOMAIN workers[i].calls :
         k > LastGetAt(i) => workers[i].calls[k].status # 200

\* C14 (the status of a failed GET is propagated): in a finished cycle whose
\* first GET was answered 401 with no refresh possible, no refresh request
\* was made and the outcome is a failure with status 401; and every cycle
\* whose GET failed with no successful refresh after it ends with a failure
\* that carries the status of that GET.
C14_GetStatusPropagated ==
    \A i \in Done :
        /\ (FirstGet401(i) /\ ~RefreshPossible(i))
           => /\ \A k \in DOMAIN workers[i].calls : workers[i].calls[k].kind = "GET"
              /\ Outcome(i) = FetchErr(401)
        /\ GetFailedForGood(i)
           => Outcome(i) = FetchErr(workers[i].calls[LastGetAt(i)].status)


\* The outcome at the head of the pending channel is a failure with a status
\* other than 429.
PendingFailure ==
    /\ pending # 0
    /\ Len(workers[pending].chan) > 0
    /\ Head(workers[pending].chan).tag = "Err"
    /\ Head(workers[pending].chan).status # 429

\* C15 (other failures): when update drains a failure whose status is not
\* 429, the drain clears pending and changes nothing else: next_poll_at, the
\* cursor, last_rate and the token cache are as they were; update returns
\* with last_rate and the token cache unchanged, and with the schedule
\* unchanged unless the steps after the drain reset it (the watch became
\* visible) or advance it (a dispatch).
C15_FailureLeavesState ==
    [][(PendingFailure /\ ev'.op = "update") =>
          /\ ev'.recv = "Err"
          /\ Drain(Self, PendingWorker, Now) = [Self EXCEPT !.pending = 0]
          /\ pending' = 0 \/ ev'.dispatched
          /\ last_rate' = last_rate
          /\ access_token' = access_token
          /\ access_token_expires_at' = access_token_expires_at
          /\ refresh_token' = refresh_token
          /\ (~ev'.edge /\ ~ev'.dispatched)
             => /\ next_poll_at' = next_poll_at
                /\ next_interval_index' = next_interval_index
                /\ pending' = 0]_vars

\* C15 witness: a call has drained such a failure in the middle of a backoff
\* and returned with the schedule and the last rate it found.
C15_Witness ==
    /\ ev.op = "update" /\ ev.recv = "Err" /\ ~ev.dispatched /\ ~ev.edge
    /\ pending = 0 /\ next_poll_at > Now /\ next_interval_index = 2
    /\ IsSome(last_rate) /\ cooldown_left = 0


\* Worker i starts its cycle now with a cached expiry that has passed and all
\* a refresh needs.
ExpiredAndCanRefresh(i) ==
    /\ IsSome(workers[i].args.cached_expiry)
    /\ Now >= Unwrap(workers[i].args.cached_expiry)
    /\ RefreshPossible(i)

\* C16 (proactive refresh): a cycle that starts with a cached expiry that has
\* passed and with all a refresh needs makes the refresh request first; when
\* the refresh fails the cycle ends there with a failure and no GET; when it
\* succeeds the next call is the GET, presenting the new access token and not
\* the expired one, and a success outcome carries the TokenUpdate whose token
\* the last GET presented; the update that drains that success caches the
\* token with the expiry now + expires_in.
C16_ProactiveRefresh ==
    [][/\ \A i \in Slots :
            (/\ workers[i].pc = "running" /\ workers'[i].pc = "done"
             /\ ExpiredAndCanRefresh(i))
            => /\ Len(workers'[i].calls) >= 1
               /\ workers'[i].calls[1].kind = "POST"
               /\ Some(workers'[i].calls[1].token) = workers[i].args.refresh_token
               /\ IF workers'[i].calls[1].status # 200
                  THEN /\ Len(workers'[i].calls) = 1
                       /\ workers'[i].chan[1].tag = "Err"
                  ELSE /\ Len(workers'[i].calls) >= 2
                       /\ workers'[i].calls[2].kind = "GET"
                       /\ Some(workers'[i].calls[2].token)
                            # workers[i].args.cached_access_token
                       /\ workers'[i].calls[2].token \in {"newA", "newB"}
                       /\ workers'[i].chan[1].tag = "Ok"
                          => /\ IsSome(workers'[i].chan[1].token)
                             /\ Unwrap(workers'[i].chan[1].token).access_token
                                  = workers'[i].calls[Len(workers'[i].calls)].token
       /\ (/\ pending # 0
           /\ workers[pending].pc = "done"
           /\ workers[pending].calls # <<>>
           /\ workers[pending].calls[1].kind = "POST"
           /\ Outcome(pending).tag = "Ok"
           /\ ev'.op = "update")
          => /\ access_token'
                  = Some(workers[pending].calls[Len(workers[pending].calls)].token)
             /\ access_token_expires_at'
                  = Some(Now + Unwrap(Outcome(pending).token).expires_in)]_vars

\* C16 witness: a thread given the expired token newA asked for a refresh
\* first, presented the new token newB in its GET, and its success carries
\* newB.
C16_Witness ==
    \E i \in Done :
        /\ workers[i].args.cached_access_token = Some("newA")
        /\ workers[i].args.cached_expiry = Some(Now)
        /\ Len(workers[i].calls) = 2
        /\ workers[i].calls[1].kind = "POST" /\ workers[i].calls[1].status = 200
        /\ workers[i].calls[2].kind = "GET" /\ workers[i].calls[2].token = "newB"
        /\ Outcome(i).tag = "Ok"
        /\ Unwrap(Outcome(i).token).access_token = "newB"


\* The outcome at the head of the pending channel is a success that carries a
\* TokenUpdate.
PendingTokenUpdate ==
    /\ pending # 0
    /\ Len(workers[pending].chan) > 0
    /\ Head(workers[pending].chan).tag = "Ok"
    /\ IsSome(Head(workers[pending].chan).token)
\* That TokenUpdate.
PendingUpdate == Unwrap(Head(workers[pending].chan).token)

\* C17 (applying a TokenUpdate): the update that drains a success carrying a
\* TokenUpdate caches its access token, sets the cached expiry to now +
\* expires_in, caches its refresh token when it carries one and keeps the
\* cached refresh token when it carries none; last_rate is the rate of the
\* outcome, and the drain leaves next_poll_at and the cursor alone.
C17_TokenUpdateApplied ==
    [][(PendingTokenUpdate /\ ev'.op = "update") =>
          /\ ev'.recv = "Ok"
          /\ access_token' = Some(PendingUpdate.access_token)
          /\ access_token_expires_at' = Some(Now + PendingUpdate.expires_in)
          /\ refresh_token' = IF IsSome(PendingUpdate.refresh_token)
                              THEN PendingUpdate.refresh_token
                              ELSE refresh_token
          /\ last_rate' = Head(workers[pending].chan).rate
          /\ Drain(Self, PendingWorker, Now).next_poll_at = next_poll_at
          /\ Drain(Self, PendingWorker, Now).next_interval_index
               = next_interval_index
          /\ ~ev'.visible => /\ next_poll_at' = next_poll_at
                             /\ next_interval_index' = next_interval_index]_vars

\* C17 witness: a drained success has left the second token of the endpoint
\* in the cache, with its expiry, and a rotated refresh token.
C17_Witness ==
    /\ ev.op = "update" /\ ev.recv = "Ok" /\ ev.refreshed
    /\ access_token = Some("newB")
    /\ access_token_expires_at = Some(Now + 3)
    /\ refresh_token = Some("rotR")


\* The cycle of worker w got a new token, and its final GET failed (after
\* that GET it made no call, or a refresh request that failed).
RefreshedThenGetFailed(w) ==
    /\ Refreshed(w)
    /\ \E k \in DOMAIN w.calls :
         /\ w.calls[k].kind = "GET" /\ w.calls[k].status # 200
         /\ \A j \in DOMAIN w.calls : j > k => w.calls[j].status # 200

C19_ConfiguredRefreshTokenWins ==
    [][/\ ev'.dispatched
          => /\ IsSome(workers'[pending'].args.config_refresh_token)
                => workers'[pending'].args.refresh_token
                     = workers'[pending'].args.config_refresh_token
             /\ IsNone(workers'[pending'].args.config_refresh_token)
                => workers'[pending'].args.refresh_token = refresh_token'
             /\ workers'[pending'].args.config_refresh_token \in {None, Some("cfgR")}
       /\ \A i \in Slots :
            (workers[i].pc = "running" /\ workers'[i].pc = "done")
            => \A k \in DOMAIN workers'[i].calls :
                 workers'[i].calls[k].kind = "POST"
                 => Some(workers'[i].calls[k].token) = workers[i].args.refresh_token]_vars

\* C19 witness: the cache holds the rotated refresh token, the configuration
\* sets one, and the thread has asked for a refresh with the configured one.
C19_Witness ==
    \E i \in Done :
        /\ refresh_token = Some("rotR")
        /\ workers[i].args.config_refresh_token = Some("cfgR")
        /\ workers[i].args.refresh_token = Some("cfgR")
        /\ \E k \in DOMAIN workers[i].calls :
             workers[i].calls[k].kind = "POST" /\ workers[i].calls[k].token = "cfgR"


\* The last step was a call of update whose drain cleared the pending fetch:
\* it received the outcome, or found the channel disconnected.
Cleared ==
    ev.op = "update" /\ ev.recv \in {"Ok", "Err", "Err429", "Disconnected"}

\* C20 (polling never stalls): while update keeps being called, threads end
\* and time passes, a pending fetch does not stay pending for ever: update
\* clears it, with a visible or an invisible watch; and after update, called
\* with a visible watch, has cleared a fetch (a success, a failure, a 429 or
\* a dead thread), a later call dispatches again unless the watch is made
\* invisible.
C20_PollingNeverStalls ==
    /\ (pending # 0 /\ ~Cleared) ~> (pending = 0 \/ Cleared)
    /\ (Cleared /\ ev.visible /\ ~ev.dispatched)
         ~> (ev.op = "update" /\ (ev.dispatched \/ ~ev.visible))

\* C20 witness: after a drained 429 and its cool-down a call with a watch
\* that had stayed visible has dispatched again, at the last index.
C20_Witness ==
    /\ ev.op = "update" /\ ev.visible /\ ~ev.edge /\ ev.dispatched
    /\ ev.recv = "NoPending"
    /\ ~run.clean /\ next_interval_index = 3 /\ next_poll_at = Now + 30


====
